---- MODULE Spec2Model ----
(***************************************************************************)
(* Model of src/pys/market_data.py: the processed-data store (DataStorage) *)
(* with its fragment files, the downloader (TinkoffDataDownloader), the    *)
(* timeframe converter and the orchestrator (MarketDataManager) with its  *)
(* single calls and its batch of calls on a thread pool.                   *)
(*                                                                         *)
(* Time.  A timestamp is a tick number; a day has TicksPerDay ticks, tick  *)
(* 0 of a day being midnight; a year has DaysPerYear days.  A date string  *)
(* 'YYYY-MM-DD' is a day number: strftime('%Y-%m-%d') is Day(t) and        *)
(* pd.to_datetime of a date string is Midnight(d).                         *)
(***************************************************************************)
EXTENDS Integers, Sequences, FiniteSets, TLC

\* ---------------------------------------------------------------- bounds
MaxDay == 3
TicksPerDay == 3
DaysPerYear == 2
MaxOps == 2

Days == 0..MaxDay
MaxTs == (MaxDay + 1) * TicksPerDay - 1
Stamps == 0..MaxTs
Years == 0..(MaxDay \div DaysPerYear)

\* ts.strftime('%Y-%m-%d'): the day a timestamp lies in
Day(t) == t \div TicksPerDay
\* pd.to_datetime('YYYY-MM-DD'): midnight of the day
Midnight(d) == d * TicksPerDay
\* pd.to_datetime(date).year
YearOf(d) == d \div DaysPerYear

\* ------------------------------------------------------------ data frames
\* A row of a frame with the columns date, open, close, min, max, volume.
\* v selects one of the price profiles the inputs are drawn from.
Bar(t, v) ==
  [date |-> t, open |-> 10 * v, close |-> 10 * v + 1, min |-> 10 * v - 1,
   max |-> 10 * v + 2, volume |-> v]

\* Optional[DataFrame]: None, or a frame with its rows in order
None == [isNone |-> TRUE, rows |-> <<>>]
DF(rows) == [isNone |-> FALSE, rows |-> rows]

Dates(rows) == {rows[i].date : i \in 1..Len(rows)}

Indices(rows) == [i \in 1..Len(rows) |-> i]

\* drop_duplicates left out
DropDuplicatesKeepsAll(rows) == rows

\* df.drop_duplicates(subset=['date']): keeps the first row of every date
DropDuplicates(rows) ==
  LET keep == SelectSeq(Indices(rows),
                        LAMBDA i : \A j \in 1..(i - 1) : rows[j].date # rows[i].date)
  IN [k \in 1..Len(keep) |-> rows[keep[k]]]

\* the place of row i after a sort by date that keeps rows of equal date in
\* their order
PlaceOf(rows, i) ==
  1 + Cardinality({j \in 1..Len(rows) :
                     \/ rows[j].date < rows[i].date
                     \/ (rows[j].date = rows[i].date /\ j < i)})

\* df.sort_values(by='date'); rows of equal date keep their order here.  The
\* code sorts frames with equal dates only in load_raw_csv_files, where
\* such rows are equal in every column.
SortValues(rows) ==
  LET place == [i \in 1..Len(rows) |-> PlaceOf(rows, i)]
      from == [k \in 1..Len(rows) |-> CHOOSE i \in 1..Len(rows) : place[i] = k]
  IN [k \in 1..Len(rows) |-> rows[from[k]]]

\* a filter that forgets the upper end
BetweenFrom(rows, lo, hi) == SelectSeq(rows, LAMBDA r : r.date >= lo)

\* df[(df['date'] >= lo) & (df['date'] <= hi)]
Between(rows, lo, hi) == SelectSeq(rows, LAMBDA r : r.date >= lo /\ r.date <= hi)

MinOf(S) == CHOOSE x \in S : \A y \in S : x <= y
MaxOf(S) == CHOOSE x \in S : \A y \in S : y <= x

RECURSIVE Concat(_)
Concat(frames) == IF frames = <<>> THEN <<>> ELSE Head(frames) \o Concat(Tail(frames))

\* ------------------------------------------------- processed-data storage
\* A ticker's processed directory is a sequence of files [name, data],
\* oldest write first.  A file name carries the first and last day of the
\* data, or says the data is empty.
EmptyName == [kind |-> "empty", lo |-> 0, hi |-> 0]
SpanName(rows) ==
  [kind |-> "span", lo |-> Day(MinOf(Dates(rows))), hi |-> Day(MaxOf(Dates(rows)))]

FileName(rows) == IF Len(rows) > 0 THEN SpanName(rows) ELSE EmptyName

\* the file of a frame put into a directory, in place of a file of its name
WriteFile(dir, name, rows) ==
  Append(SelectSeq(dir, LAMBDA f : f.name # name), [name |-> name, data |-> rows])

\* save_processed_data that writes no file for an empty frame
SaveProcessedSkipsEmpty(dir, rows) ==
  IF Len(rows) = 0 THEN dir ELSE WriteFile(dir, FileName(rows), rows)

\* save_processed_data: to_parquet replaces a file of the same name
SaveProcessed(dir, rows) == WriteFile(dir, FileName(rows), rows)

RECURSIVE PermsOf(_)
PermsOf(S) ==
  IF S = {} THEN {<<>>}
  ELSE UNION {{<<x>> \o p : p \in PermsOf(S \ {x})} : x \in S}

\* os.listdir returns the files in arbitrary order: every order of the files
Listings(dir) == PermsOf(1..Len(dir))

\* load_processed_data, with the files enumerated in the order `listing`
LoadProcessed(dir, listing) ==
  IF Len(dir) = 0 THEN None
  ELSE DF(SortValues(DropDuplicates(
         Concat([i \in 1..Len(listing) |-> dir[listing[i]].data]))))

\* get_missing_date_ranges with the range after the data starting at the
\* first date instead of the last
MissingRangesFromMin(dir, listing, start, end) ==
  LET existing == LoadProcessed(dir, listing)
      start_date == Midnight(start)
      end_date == Midnight(end)
  IN IF existing.isNone \/ Len(existing.rows) = 0
       THEN << <<start_date, end_date>> >>
       ELSE LET min_date == MinOf(Dates(existing.rows))
                max_date == MaxOf(Dates(existing.rows))
            IN (IF start_date < min_date THEN << <<start_date, min_date>> >> ELSE <<>>)
               \o (IF end_date > max_date THEN << <<min_date, end_date>> >> ELSE <<>>)

\* get_missing_date_ranges that also reports a requested range without a
\* persisted row in it
MissingRangesWithGaps(dir, listing, start, end) ==
  LET existing == LoadProcessed(dir, listing)
      start_date == Midnight(start)
      end_date == Midnight(end)
  IN IF existing.isNone \/ Len(existing.rows) = 0
       THEN << <<start_date, end_date>> >>
       ELSE LET min_date == MinOf(Dates(existing.rows))
                max_date == MaxOf(Dates(existing.rows))
            IN IF Between(existing.rows, start_date, end_date) = <<>>
                 THEN << <<start_date, end_date>> >>
                 ELSE (IF start_date < min_date THEN << <<start_date, min_date>> >> ELSE <<>>)
                      \o (IF end_date > max_date THEN << <<max_date, end_date>> >> ELSE <<>>)

\* get_missing_date_ranges; start and end are date strings (days)
MissingRanges(dir, listing, start, end) ==
  LET existing == LoadProcessed(dir, listing)
      start_date == Midnight(start)
      end_date == Midnight(end)
  IN IF existing.isNone \/ Len(existing.rows) = 0
       THEN << <<start_date, end_date>> >>
       ELSE LET min_date == MinOf(Dates(existing.rows))
                max_date == MaxOf(Dates(existing.rows))
            IN (IF start_date < min_date THEN << <<start_date, min_date>> >> ELSE <<>>)
               \o (IF end_date > max_date THEN << <<max_date, end_date>> >> ELSE <<>>)

\* --------------------------------------------------------- instruments
Tickers == {"A", "B"}

\* get_figi / get_isin / get_uid: the identifiers the instrument table
\* lists for a ticker (one row per ticker)
get_figi(ticker) == << [kind |-> "figi", ticker |-> ticker] >>
get_isin(ticker) == << [kind |-> "isin", ticker |-> ticker] >>
get_uid(ticker) == << [kind |-> "uid", ticker |-> ticker] >>

\* the value "0" of get_correct_figi: no identifier of the list is valid
NoFigi == [kind |-> "none", ticker |-> "0"]

\* is_figi_correct: the identifier occurs in a line of figi.txt
is_figi_correct(figi, figiTxt) == figi \in figiTxt

RECURSIVE get_correct_figi(_, _)
get_correct_figi(figi_list, figiTxt) ==
  IF figi_list = <<>> THEN NoFigi
  ELSE IF is_figi_correct(Head(figi_list), figiTxt) THEN Head(figi_list)
  ELSE get_correct_figi(Tail(figi_list), figiTxt)

IdsOf(ticker) == get_figi(ticker) \o get_isin(ticker) \o get_uid(ticker)
YearSeq(lo, hi) == [i \in 1..(IF hi >= lo THEN hi - lo + 1 ELSE 0) |-> lo + i - 1]

\* every (identifier, year) of a ticker, in a fixed order
RECURSIVE Cross(_, _)
Cross(ids, years) ==
  IF ids = <<>> THEN <<>>
  ELSE [i \in 1..Len(years) |-> <<Head(ids), years[i]>>] \o Cross(Tail(ids), years)

AllKeys(ticker) == Cross(IdsOf(ticker), YearSeq(0, MaxDay \div DaysPerYear))
KeySet(ticker) == {AllKeys(ticker)[i] : i \in 1..Len(AllKeys(ticker))}

\* ------------------------------------------------------------ provider
\* What the provider answers to a request for (identifier, year):
\*   "ok"         200, an archive of the year's rows
\*   "malformed"  200, an archive with a row whose date does not parse
\*   "notfound"   404
\*   "error"      any other status, or an exception of the request
Status == {"ok", "malformed", "notfound", "error"}

\* the elements of a set of numbers in ascending order
Ordered(S) ==
  [i \in 1..Cardinality(S) |-> CHOOSE x \in S : Cardinality({y \in S : y < x}) = i - 1]

\* the rows of the provider's archive for a year, given the instants the
\* provider has bars at; every identifier of a ticker names the same bars
Archive(stamps, year) ==
  LET in == Ordered({t \in stamps : YearOf(Day(t)) = year})
  IN [i \in 1..Len(in) |-> Bar(in[i], 1)]

\* _download_year_data: the archive is stored iff the status is 200
DownloadYear(resp, key) == resp[key] \in {"ok", "malformed"}

\* the requests download_for_ticker issues, in order
Requests(ticker, figiTxt, start, end) ==
  LET years == YearSeq(YearOf(start), YearOf(end))
      correct_figi == get_correct_figi(get_figi(ticker), figiTxt)
  IN IF correct_figi # NoFigi
       THEN Cross(<<correct_figi>>, years)
       ELSE Cross(get_figi(ticker) \o get_isin(ticker) \o get_uid(ticker), years)

SeqToSet(s) == {s[i] : i \in 1..Len(s)}

\* the raw directory after the requests: store_raw_data writes, or
\* replaces, the archive of every request answered with status 200
StoreRaw(ticker, raw, reqs, resp) ==
  [k \in KeySet(ticker) |->
     IF k \in SeqToSet(reqs) /\ DownloadYear(resp, k) THEN resp[k] ELSE raw[k]]

\* extract_raw_data: the archives of the raw directory that hold a CSV file
\* with rows, whenever they were stored
extract_raw_data(ticker, raw, stamps) ==
  SelectSeq(AllKeys(ticker), LAMBDA k :
    raw[k] = "malformed" \/ (raw[k] = "ok" /\ Archive(stamps, k[2]) # <<>>))

\* load_raw_csv_files of archives without a malformed date
load_raw_csv_files(csv_files, stamps) ==
  SortValues(Concat([i \in 1..Len(csv_files) |-> Archive(stamps, csv_files[i][2])]))

\* the end of download_for_ticker for a frame of rows: the frame is saved
\* and returned
Downloaded(raw, dir, reqs, data) ==
  [raw |-> raw, dir |-> SaveProcessed(dir, data), reqs |-> reqs,
   raised |-> FALSE, data |-> DF(data)]

\* download_for_ticker after its requests: None without CSV files, an
\* exception of pd.to_datetime on a malformed date, and otherwise the rows of
\* the range
Extracted(raw, dir, reqs, csv_files, stamps, start, end) ==
  IF csv_files = <<>>
    THEN [raw |-> raw, dir |-> dir, reqs |-> reqs, raised |-> FALSE, data |-> None]
  ELSE IF \E i \in 1..Len(csv_files) : raw[csv_files[i]] = "malformed"
    THEN [raw |-> raw, dir |-> dir, reqs |-> reqs, raised |-> TRUE, data |-> None]
  ELSE Downloaded(raw, dir, reqs,
                  Between(load_raw_csv_files(csv_files, stamps),
                          Midnight(start), Midnight(end)))

Requested(ticker, raw, dir, reqs, stamps, start, end) ==
  Extracted(raw, dir, reqs, extract_raw_data(ticker, raw, stamps), stamps, start, end)

Requesting(ticker, raw, dir, reqs, stamps, resp, start, end) ==
  Requested(ticker, StoreRaw(ticker, raw, reqs, resp), dir, reqs, stamps, start, end)

\* download_for_ticker.  raw: the ticker's raw directory (key -> "none",
\* "ok" or "malformed"), dir: its processed directory.  The result carries
\* the directories afterwards, the requests issued, and either the frame
\* returned (data) or raised = TRUE.
DownloadForTicker(ticker, raw, dir, figiTxt, stamps, resp, start, end) ==
  Requesting(ticker, raw, dir, Requests(ticker, figiTxt, start, end), stamps, resp,
             start, end)

\* ------------------------------------------------------------ converter
\* resample_map: '5min' is the rule '5T', five instants when an instant is a
\* minute; the model's day stays TicksPerDay instants long
FiveMinutes == 5

\* the width of the rule's bins: resample_map.get(timeframe, '1D')
RuleTicks(timeframe) == IF timeframe = "5min" THEN FiveMinutes ELSE TicksPerDay

RECURSIVE SumVolume(_)
SumVolume(rows) == IF rows = <<>> THEN 0 ELSE Head(rows).volume + SumVolume(Tail(rows))

\* a bin whose close is taken from its first row
BucketCloseFirst(rows, width, b) ==
  LET in == SelectSeq(rows, LAMBDA r : r.date \div width = b)
  IN IF in = <<>>
       THEN [date |-> b * width, nan |-> TRUE, open |-> 0, min |-> 0, max |-> 0,
             close |-> 0, volume |-> 0]
       ELSE [date |-> b * width, nan |-> FALSE,
             open |-> in[1].open,
             min |-> MinOf({in[i].min : i \in 1..Len(in)}),
             max |-> MaxOf({in[i].max : i \in 1..Len(in)}),
             close |-> in[1].close,
             volume |-> SumVolume(in)]

\* a row of a resampled frame: bin b of the given width, labelled with its
\* first instant; nan = TRUE stands for NaN in open, min, max and close (a
\* bin without input rows, whose volume sums to 0)
Bucket(rows, width, b) ==
  LET in == SelectSeq(rows, LAMBDA r : r.date \div width = b)
  IN IF in = <<>>
       THEN [date |-> b * width, nan |-> TRUE, open |-> 0, min |-> 0, max |-> 0,
             close |-> 0, volume |-> 0]
       ELSE [date |-> b * width, nan |-> FALSE,
             open |-> in[1].open,
             min |-> MinOf({in[i].min : i \in 1..Len(in)}),
             max |-> MaxOf({in[i].max : i \in 1..Len(in)}),
             close |-> in[Len(in)].close,
             volume |-> SumVolume(in)]

\* df.resample(rule).agg(agg_dict): one row for every bin from the bin of
\* the first row to the bin of the last row
Resampled(rows, width) ==
  LET first == MinOf(Dates(rows)) \div width
      last == MaxOf(Dates(rows)) \div width
  IN [i \in 1..(last - first + 1) |-> Bucket(rows, width, first + i - 1)]

\* resample_ohlcv: an empty frame for an empty frame
resample_ohlcv(rows, timeframe) ==
  IF Len(rows) = 0 THEN <<>> ELSE Resampled(rows, RuleTicks(timeframe))

\* ---------------------------------------------------------- orchestrator
\* a merge that concatenates the downloaded frame first
MergeNewFirst(existing, frame) ==
  IF ~frame.isNone /\ Len(frame.rows) > 0
    THEN SortValues(DropDuplicates(frame.rows \o existing))
    ELSE existing

\* the merge of a downloaded frame into existing_data
Merge(existing, frame) ==
  IF ~frame.isNone /\ Len(frame.rows) > 0
    THEN SortValues(DropDuplicates(existing \o frame.rows))
    ELSE existing

\* the state of the loop after a pass that downloaded d and left the working
\* frame `working`; passes records the processed directory and the working
\* frame at the end of every pass
Pass(st, d, working) ==
  [raw |-> d.raw, dir |-> d.dir, existing |-> working,
   reqs |-> st.reqs \o d.reqs, fetched |-> Append(st.fetched, d.data),
   raised |-> d.raised,
   passes |-> Append(st.passes, [dir |-> d.dir, working |-> working])]

Merged(st, d) ==
  Pass(st, d, IF d.raised THEN st.existing ELSE Merge(st.existing, d.data))

\* One pass of the loop over missing_ranges in get_data.  st carries the raw
\* and processed directories, the working frame existing_data, the requests
\* issued so far, the frames download_for_ticker returned and whether an
\* exception left the loop.
BackfillStep(ticker, figiTxt, stamps, resp, st, range) ==
  IF st.raised THEN st
  ELSE Merged(st, DownloadForTicker(ticker, st.raw, st.dir, figiTxt, stamps, resp,
                                    Day(range[1]), Day(range[2])))

RECURSIVE Backfill(_, _, _, _, _, _)
Backfill(ticker, figiTxt, stamps, resp, st, ranges) ==
  IF ranges = <<>> THEN st
  ELSE Backfill(ticker, figiTxt, stamps, resp,
                BackfillStep(ticker, figiTxt, stamps, resp, st, Head(ranges)),
                Tail(ranges))

\* the conversion at the end of get_data
Convert(data, timeframe) ==
  IF timeframe # "1min" /\ ~data.isNone /\ Len(data.rows) > 0
    THEN DF(resample_ohlcv(data.rows, timeframe))
    ELSE data

\* the end of get_data on the path with existing data
Backfilled(st, missing_ranges, start, end) ==
  [raw |-> st.raw, dir |-> st.dir, raised |-> st.raised,
   data |-> IF st.raised THEN None
            ELSE DF(Between(st.existing, Midnight(start), Midnight(end))),
   reqs |-> st.reqs, missing |-> missing_ranges, fetched |-> st.fetched,
   passes |-> st.passes]

\* the end of get_data on the path without existing data
Fresh(d, start, end) ==
  [raw |-> d.raw, dir |-> d.dir, raised |-> d.raised, data |-> d.data,
   reqs |-> d.reqs, missing |-> << <<Midnight(start), Midnight(end)>> >>,
   fetched |-> <<d.data>>, passes |-> <<>>]

\* get_data after its reads of the processed directory: existing_data
\* is what load_processed_data returned (None under force_download) and
\* missing_ranges what get_missing_date_ranges returned.  The result
\* carries the directories afterwards, the frame before the conversion
\* (data) unless raised, the requests issued (reqs), the missing ranges
\* looked at (missing) and the frame download_for_ticker returned for each
\* of them (fetched), and the state at the end of every pass of the loop
\* (passes).
get_data(ticker, raw, dir, figiTxt, stamps, resp, existing_data, missing_ranges, start, end) ==
  IF ~existing_data.isNone
    THEN Backfilled(Backfill(ticker, figiTxt, stamps, resp,
                             [raw |-> raw, dir |-> dir, existing |-> existing_data.rows,
                              reqs |-> <<>>, fetched |-> <<>>, raised |-> FALSE,
                              passes |-> <<>>],
                             missing_ranges),
                    missing_ranges, start, end)
    ELSE Fresh(DownloadForTicker(ticker, raw, dir, figiTxt, stamps, resp, start, end),
               start, end)

\* what load_processed_data can return, over the orders of os.listdir
Loads(dir) == {LoadProcessed(dir, l) : l \in Listings(dir)}

\* get_data that reads the store also under force_download
OutcomesIgnoringForce(ticker, raw, dir, figiTxt, stamps, resp, start, end, force) ==
  UNION {{[existing |-> existing_data,
           r |-> get_data(ticker, raw, dir, figiTxt, stamps, resp,
                          existing_data, missing_ranges, start, end)] :
            missing_ranges \in {MissingRanges(dir, l, start, end) : l \in Listings(dir)}} :
         existing_data \in Loads(dir)}

\* the outcomes of get_data(ticker, start_date, end_date, *, force_download)
\* before the conversion, over the orders of os.listdir
Outcomes(ticker, raw, dir, figiTxt, stamps, resp, start, end, force) ==
  UNION {{[existing |-> existing_data,
           r |-> get_data(ticker, raw, dir, figiTxt, stamps, resp,
                          existing_data, missing_ranges, start, end)] :
            missing_ranges \in {MissingRanges(dir, l, start, end) : l \in Listings(dir)}} :
         existing_data \in (IF force THEN {None} ELSE Loads(dir))}

\* ------------------------------------------------------------------ state
VARIABLES
  dirs,      \* ticker -> processed directory (files, oldest write first)
  raws,      \* ticker -> raw directory (key -> "none", "ok", "malformed")
  figiTxt,   \* the identifiers listed in figi.txt
  stamps,    \* the instants the provider has bars at
  last,      \* the call under observation: its name, arguments and outcome
  nops,      \* calls that wrote to the store so far
  batch,     \* the call of get_data_for_multiple_tickers in progress
  workers,   \* its futures, in the order of submission
  results    \* its results dictionary

vars == <<dirs, raws, figiTxt, stamps, last, nops, batch, workers, results>>

\* ----------------------------------------------------------------- inputs
SeqTickers == {"A"}

\* the contents of figi.txt: empty, or every ticker's figi
FigiFiles == {{}, {get_figi(t)[1] : t \in Tickers}}

\* what the provider has: a bar at every instant, or one bar a day, at the
\* first instant after midnight
ProviderStamps == {Stamps, {t \in Stamps : t % TicksPerDay = 1}}

\* the answers of the provider during one call
Responses(ticker) ==
  {[k \in KeySet(ticker) |-> s] : s \in {"ok", "notfound", "malformed"}}
  \cup {[k \in KeySet(ticker) |-> IF k[2] = y THEN "error" ELSE "ok"] : y \in Years}

RequestRanges == {<<0, MaxDay>>, <<0, 1>>, <<1, MaxDay - 1>>}
Timeframes == {"1min", "1d"}

\* the frames handed to save_processed_data by a caller
SaveInputs ==
  { <<>>,
    <<Bar(1, 2)>>,
    <<Bar(Midnight(1), 1), Bar(1, 1)>>,
    <<Bar(1, 1), Bar(1, 2), Bar(Midnight(1), 2)>>,
    <<Bar(1, 1), Bar(Midnight(1), 1), Bar(Midnight(1) + 1, 1)>>,
    <<Bar(Midnight(1) + 1, 2), Bar(Midnight(1) + 2, 2)>> }

\* frames a caller saved whose extent reaches over whole days: around days 1
\* to MaxDay - 1 without a bar in them, with a bar in them, exactly from
\* midnight to midnight, over every day of the model, and two that leave a
\* part of those days uncovered
CoverInputs ==
  { <<Bar(Midnight(1) - 1, 2), Bar(Midnight(MaxDay - 1) + 1, 2)>>,
    <<Bar(Midnight(1) - 1, 2), Bar(Midnight(1) + 1, 2), Bar(Midnight(MaxDay - 1) + 1, 2)>>,
    <<Bar(Midnight(1), 2), Bar(Midnight(MaxDay - 1), 2)>>,
    <<Bar(0, 2), Bar(Midnight(MaxDay), 2)>>,
    <<Bar(Midnight(1) + 1, 2), Bar(Midnight(MaxDay - 1) + 1, 2)>>,
    <<Bar(Midnight(1) - 1, 2)>> }

Quiet == [op |-> "none"]

\* no call of get_data_for_multiple_tickers in progress
NoBatch ==
  [active |-> FALSE, tickers |-> <<>>, start |-> 0, end |-> 0, timeframe |-> "1min",
   max_workers |-> 0, resp |-> <<>>, dirs |-> <<>>, raws |-> <<>>, next |-> 1,
   returned |-> FALSE]

\* a dictionary without entries
EmptyDict == [t \in {} |-> None]

Init ==
  /\ dirs = [t \in Tickers |-> <<>>]
  /\ raws = [t \in Tickers |-> [k \in KeySet(t) |-> "none"]]
  /\ figiTxt \in FigiFiles
  /\ stamps \in ProviderStamps
  /\ last = Quiet
  /\ nops = 0
  /\ batch = NoBatch
  /\ workers = <<>>
  /\ results = EmptyDict

\* save_processed_data(ticker, data)
Save(ticker, rows) ==
  /\ nops < MaxOps
  /\ last.op # "get"
  /\ dirs' = [dirs EXCEPT ![ticker] = SaveProcessed(dirs[ticker], rows)]
  /\ last' = [op |-> "save", ticker |-> ticker, rows |-> rows,
              fresh |-> dirs[ticker] = <<>>]
  /\ nops' = nops + 1
  /\ UNCHANGED <<raws, figiTxt, stamps, batch, workers, results>>

\* load_processed_data(ticker), observed; saved is the frame of the save
\* right before it, when that save was the first into the directory
Load(ticker, listing) ==
  /\ last' = [op |-> "load", ticker |-> ticker, listing |-> listing,
              ret |-> LoadProcessed(dirs[ticker], listing),
              saved |-> IF last.op = "save" /\ last.ticker = ticker /\ last.fresh
                          THEN <<last.rows>> ELSE <<>>]
  /\ UNCHANGED <<dirs, raws, figiTxt, stamps, nops, batch, workers, results>>

\* get_missing_date_ranges(ticker, start_date, end_date), observed
Missing(ticker, listing, start, end) ==
  /\ last' = [op |-> "missing", ticker |-> ticker, start |-> start, end |-> end,
              ret |-> MissingRanges(dirs[ticker], listing, start, end)]
  /\ UNCHANGED <<dirs, raws, figiTxt, stamps, nops, batch, workers, results>>

\* the outcomes of get_data on the store as it is
GetOutcomes(ticker, resp, start, end, force) ==
  Outcomes(ticker, raws[ticker], dirs[ticker], figiTxt, stamps, resp, start, end, force)

\* what an observed call leaves in last: its arguments and its outcome, and,
\* when it repeats the observed call before it, that call's outcome too
Observed(args, resp, existing_data, r, prev) ==
  [op |-> "get", args |-> args, resp |-> resp, raised |-> r.raised,
   ret |-> Convert(r.data, args.timeframe), reqs |-> r.reqs,
   existing |-> existing_data, missing |-> r.missing, fetched |-> r.fetched,
   passes |-> r.passes, prev |-> prev]

\* get_data(ticker, start_date, end_date, timeframe, force_download).  An
\* observed call is followed by nothing but the same call again, observed
\* too; calls that are not observed leave last alone.
GetData(ticker, resp, start, end, force) ==
  /\ nops < MaxOps
  /\ last.op = "get" =>
       /\ last.prev = <<>>
       /\ last.args.ticker = ticker /\ last.args.force = force
       /\ last.args.start = start /\ last.args.end = end
  /\ \E o \in GetOutcomes(ticker, resp, start, end, force) :
       /\ dirs' = [dirs EXCEPT ![ticker] = o.r.dir]
       /\ raws' = [raws EXCEPT ![ticker] = o.r.raw]
       /\ \E timeframe \in Timeframes, observe \in BOOLEAN :
            LET args == [ticker |-> ticker, start |-> start, end |-> end,
                         timeframe |-> timeframe, force |-> force]
            IN /\ last.op = "get" => (observe /\ last.args = args)
               /\ last' = IF observe
                            THEN Observed(args, resp, o.existing, o.r,
                                   IF last.op = "get"
                                     THEN << [resp |-> last.resp, raised |-> last.raised,
                                              ret |-> last.ret, fetched |-> last.fetched] >>
                                     ELSE <<>>)
                            ELSE Quiet
  /\ nops' = nops + 1
  /\ UNCHANGED <<figiTxt, stamps, batch, workers, results>>

\* the frames handed to resample_ohlcv: the three minute bars 09:00, 09:01
\* and 09:04 of one five-minute bin, and the frames of up to three bars at
\* distinct instants, in ascending order
ExampleBars ==
  << [date |-> 5, open |-> 10, max |-> 11, min |-> 9, close |-> 10, volume |-> 100],
     [date |-> 6, open |-> 10, max |-> 10, min |-> 8, close |-> 9, volume |-> 50],
     [date |-> 9, open |-> 9, max |-> 12, min |-> 9, close |-> 11, volume |-> 200] >>

ResampleInputs ==
  {ExampleBars}
    \cup {[i \in 1..Len(Ordered(S)) |-> Bar(Ordered(S)[i], 1 + (Ordered(S)[i] % 2))] :
            S \in {T \in SUBSET Stamps : Cardinality(T) <= 3}}

ResampleTimeframes == {"5min", "1d"}

\* TimeframeConverter.resample_ohlcv(df, timeframe), observed
Resample(df, timeframe) ==
  /\ last' = [op |-> "resample", df |-> df, timeframe |-> timeframe,
              ret |-> resample_ohlcv(df, timeframe)]
  /\ UNCHANGED <<dirs, raws, figiTxt, stamps, nops, batch, workers, results>>

\* the frames _download_year_data may have on the stack: it stands for the
\* interpreter's recursion limit less the depth of the caller
RecursionLimit == 3

\* what the provider can answer to one request; "ratelimit" is status 429
Answers == Status \cup {"ratelimit"}

\* a retry that stays in the frame of the call
SameFrame(depth) == depth

\* the retry `return self._download_year_data(ticker, figi, year)` is a call
\* of its own: one more frame on the stack
Deeper(depth) == depth + 1

\* _download_year_data(ticker, figi, year) is called and about to send its
\* request
FetchYear(ticker, key) ==
  /\ last' = [op |-> "fetch", ticker |-> ticker, key |-> key, depth |-> 1,
              answers |-> <<>>, done |-> FALSE, ret |-> "None"]
  /\ UNCHANGED <<dirs, raws, figiTxt, stamps, nops, batch, workers, results>>

\* the provider answers the request of the innermost frame.  200: the archive
\* is stored and its path returned; 429: after the sleep the function calls
\* itself, and when the stack is full that call raises RecursionError, which
\* the except of the calling frame turns into None; 404, another status or
\* an exception of the request: None.  Every outer frame returns what its
\* inner call returned.
Answer(status) ==
  /\ last.op = "fetch" /\ ~last.done
  /\ LET heard == [last EXCEPT !.answers = Append(@, status)]
     IN IF status \in {"ok", "malformed"}
          THEN /\ last' = [heard EXCEPT !.done = TRUE, !.ret = "path"]
               /\ raws' = [raws EXCEPT ![last.ticker] =
                             StoreRaw(last.ticker, @, <<last.key>>,
                                      [k \in KeySet(last.ticker) |-> status])]
        ELSE IF status = "ratelimit" /\ last.depth < RecursionLimit
          THEN /\ last' = [heard EXCEPT !.depth = Deeper(@)]
               /\ UNCHANGED raws
        ELSE /\ last' = [heard EXCEPT !.done = TRUE, !.ret = "None"]
             /\ UNCHANGED raws
  /\ UNCHANGED <<dirs, figiTxt, stamps, nops, batch, workers, results>>

\* ------------------------------------------- get_data_for_multiple_tickers
\* ThreadPoolExecutor(max_workers=max_workers): the default of the parameter
max_workers == 5

\* the tickers lists of the calls; a list may name a ticker twice
BatchInputs == {<<"A", "B">>, <<"B", "A", "B">>}

\* the answers of the provider during a call, per ticker: archives for
\* every ticker, or for every ticker but one, which gets archives with a
\* malformed date or status 404
BatchResponses ==
  {[t \in Tickers |-> [k \in KeySet(t) |-> IF t = bad[1] THEN bad[2] ELSE "ok"]] :
     bad \in {<<"none", "ok">>, <<"A", "malformed">>, <<"B", "malformed">>,
              <<"B", "notfound">>}}

\* the tickers lists and values of max_workers of the calls that fill the pool
PoolInputs == {<<"A", "B", "A">>, <<"B", "A", "B", "A">>}
PoolSizes == {1, 2}

\* the date ranges of the calls
BatchRanges == {<<0, 1>>, <<1, MaxDay - 1>>}

\* a future: the ticker of its get_data, how far the call has got (pc), the
\* call's existing_data, the missing ranges still to download, whether the
\* call took the branch without existing data (fresh), and its outcome
Future(ticker) ==
  [ticker |-> ticker, pc |-> "queued", existing |-> None, ranges |-> <<>>,
   fresh |-> FALSE, raised |-> FALSE, ret |-> None]

Running(w) == w.pc \notin {"queued", "done"}

\* a pool that starts a queued call whenever there is one
PoolAlwaysHasRoom(futures, pool_size) == TRUE

\* ThreadPoolExecutor: a call starts only on one of max_workers threads, each
\* running one call at a time
PoolHasRoom(futures, pool_size) ==
  Cardinality({j \in 1..Len(futures) : Running(futures[j])}) < pool_size

\* results[ticker] = value
Put(dict, ticker, value) ==
  [t \in DOMAIN dict \cup {ticker} |-> IF t = ticker THEN value ELSE dict[t]]

\* the body of the loop over the futures: results[ticker] = future.result(),
\* or None when the call raised
Record(dict, ticker, w) ==
  Put(dict, ticker, IF w.raised THEN None ELSE w.ret)

\* the value get_data returns on the branch with existing data
Filtered(existing, start, end, timeframe) ==
  Convert(DF(Between(existing, Midnight(start), Midnight(end))), timeframe)

\* executor.submit(self.get_data, ticker, start_date, end_date, timeframe)
\* for every ticker of the list
Submit(tickers, start, end, timeframe, pool_size, resp) ==
  /\ ~batch.active
  /\ batch' = [active |-> TRUE, tickers |-> tickers, start |-> start, end |-> end,
               timeframe |-> timeframe, max_workers |-> pool_size, resp |-> resp,
               dirs |-> dirs, raws |-> raws, next |-> 1, returned |-> FALSE]
  /\ workers' = [i \in 1..Len(tickers) |-> Future(tickers[i])]
  /\ results' = EmptyDict
  /\ UNCHANGED <<dirs, raws, figiTxt, stamps, last, nops>>

\* a thread of the pool takes the oldest queued call
Start(i) ==
  /\ workers[i].pc = "queued"
  /\ \A j \in 1..(i - 1) : workers[j].pc # "queued"
  /\ PoolHasRoom(workers, batch.max_workers)
  /\ workers' = [workers EXCEPT ![i].pc = "load"]
  /\ UNCHANGED <<dirs, raws, figiTxt, stamps, last, nops, batch, results>>

\* get_data: existing_data = load_processed_data(ticker)
WorkerLoad(i, listing) ==
  /\ workers[i].pc = "load"
  /\ \E existing_data \in {LoadProcessed(dirs[workers[i].ticker], listing)} :
       workers' = [workers EXCEPT ![i] =
         IF existing_data.isNone
           THEN [@ EXCEPT !.pc = "fetch", !.fresh = TRUE,
                          !.ranges = << <<batch.start, batch.end>> >>]
           ELSE [@ EXCEPT !.pc = "missing", !.existing = existing_data]]
  /\ UNCHANGED <<dirs, raws, figiTxt, stamps, last, nops, batch, results>>

\* get_data: missing_ranges = get_missing_date_ranges(...); the ranges are
\* kept as the date strings handed to download_for_ticker
WorkerMissing(i, listing) ==
  /\ workers[i].pc = "missing"
  /\ \E m \in {MissingRanges(dirs[workers[i].ticker], listing, batch.start, batch.end)} :
       workers' = [workers EXCEPT ![i] =
         IF m = <<>>
           THEN [@ EXCEPT !.pc = "done",
                          !.ret = Filtered(workers[i].existing.rows, batch.start, batch.end,
                                           batch.timeframe)]
           ELSE [@ EXCEPT !.pc = "fetch",
                          !.ranges = [k \in 1..Len(m) |-> <<Day(m[k][1]), Day(m[k][2])>>]]]
  /\ UNCHANGED <<dirs, raws, figiTxt, stamps, last, nops, batch, results>>

\* download_for_ticker up to its last request: the archives are stored
WorkerFetch(i) ==
  /\ workers[i].pc = "fetch"
  /\ LET ticker == workers[i].ticker
         range == Head(workers[i].ranges)
     IN raws' = [raws EXCEPT ![ticker] =
                   StoreRaw(ticker, raws[ticker],
                            Requests(ticker, figiTxt, range[1], range[2]),
                            batch.resp[ticker])]
  /\ workers' = [workers EXCEPT ![i].pc = "persist"]
  /\ UNCHANGED <<dirs, figiTxt, stamps, last, nops, batch, results>>

\* a future after the rest of download_for_ticker returned d: the call
\* raises, returns on the branch without existing data, or merges and goes
\* on to the next missing range or to its end
Advance(w, d, start, end, timeframe) ==
  IF d.raised THEN [w EXCEPT !.pc = "done", !.raised = TRUE]
  ELSE IF w.fresh THEN [w EXCEPT !.pc = "done", !.ret = Convert(d.data, timeframe)]
  ELSE IF Len(w.ranges) > 1
    THEN [w EXCEPT !.pc = "fetch", !.ranges = Tail(@),
                   !.existing = DF(Merge(@.rows, d.data))]
  ELSE [w EXCEPT !.pc = "done", !.ranges = <<>>,
                 !.existing = DF(Merge(@.rows, d.data)),
                 !.ret = Filtered(Merge(w.existing.rows, d.data), start, end, timeframe)]

\* the rest of download_for_ticker (extract, load, filter, save) and of the
\* pass of get_data's loop
WorkerPersist(i) ==
  /\ workers[i].pc = "persist"
  /\ LET ticker == workers[i].ticker
         range == Head(workers[i].ranges)
     IN \E d \in {Requested(ticker, raws[ticker], dirs[ticker],
                            Requests(ticker, figiTxt, range[1], range[2]),
                            stamps, range[1], range[2])} :
          /\ dirs' = [dirs EXCEPT ![ticker] = d.dir]
          /\ workers' = [workers EXCEPT ![i] =
                           Advance(@, d, batch.start, batch.end, batch.timeframe)]
  /\ UNCHANGED <<raws, figiTxt, stamps, last, nops, batch, results>>

\* the loop over future_to_ticker, in the order of submission: it waits for
\* the future's call to end
Collect ==
  /\ batch.active
  /\ batch.next <= Len(workers)
  /\ workers[batch.next].pc = "done"
  /\ results' = Record(results, workers[batch.next].ticker, workers[batch.next])
  /\ batch' = [batch EXCEPT !.next = @ + 1]
  /\ UNCHANGED <<dirs, raws, figiTxt, stamps, last, nops, workers>>

\* return results
Return ==
  /\ batch.active /\ ~batch.returned
  /\ batch.next > Len(workers)
  /\ batch' = [batch EXCEPT !.returned = TRUE]
  /\ UNCHANGED <<dirs, raws, figiTxt, stamps, last, nops, workers, results>>

Next ==
  \/ \E t \in SeqTickers, rows \in SaveInputs : Save(t, rows)
  \/ \E t \in SeqTickers, r \in RequestRanges, f \in BOOLEAN :
       \E resp \in Responses(t) : GetData(t, resp, r[1], r[2], f)

\* the store alone: saves, loads and gap detection
NextStore ==
  \/ \E t \in SeqTickers, rows \in SaveInputs : Save(t, rows)
  \/ \E t \in SeqTickers : \E l \in Listings(dirs[t]) : Load(t, l)
  \/ \E t \in SeqTickers, r \in RequestRanges : \E l \in Listings(dirs[t]) :
       Missing(t, l, r[1], r[2])

\* one call of get_data_for_multiple_tickers, on a store that is empty or
\* holds what one save left
NextMany ==
  \/ \E t \in SeqTickers, rows \in SaveInputs : nops = 0 /\ ~batch.active /\ Save(t, rows)
  \/ \E tickers \in BatchInputs, r \in BatchRanges, timeframe \in Timeframes :
       \E resp \in BatchResponses :
         Submit(tickers, r[1], r[2], timeframe, max_workers, resp)
  \/ \E i \in 1..Len(workers) : Start(i)
  \/ \E i \in 1..Len(workers) :
       \E l \in Listings(dirs[workers[i].ticker]) : WorkerLoad(i, l)
  \/ \E i \in 1..Len(workers) :
       \E l \in Listings(dirs[workers[i].ticker]) : WorkerMissing(i, l)
  \/ \E i \in 1..Len(workers) : WorkerFetch(i)
  \/ \E i \in 1..Len(workers) : WorkerPersist(i)
  \/ Collect
  \/ Return

\* one call of get_data_for_multiple_tickers with more tickers than threads,
\* on an empty store
NextPool ==
  \/ \E tickers \in PoolInputs, pool_size \in PoolSizes :
       Submit(tickers, 0, 1, "1min", pool_size,
              [t \in Tickers |-> [k \in KeySet(t) |-> "ok"]])
  \/ \E i \in 1..Len(workers) : Start(i)
  \/ \E i \in 1..Len(workers) :
       \E l \in Listings(dirs[workers[i].ticker]) : WorkerLoad(i, l)
  \/ \E i \in 1..Len(workers) :
       \E l \in Listings(dirs[workers[i].ticker]) : WorkerMissing(i, l)
  \/ \E i \in 1..Len(workers) : WorkerFetch(i)
  \/ \E i \in 1..Len(workers) : WorkerPersist(i)
  \/ Collect
  \/ Return

\* one observed call of get_data, on a store that is empty or holds what
\* saves left
NextGet ==
  \/ \E t \in SeqTickers, rows \in SaveInputs : nops < MaxOps - 1 /\ Save(t, rows)
  \/ \E t \in SeqTickers, r \in RequestRanges, f \in BOOLEAN :
       \E resp \in Responses(t) :
         last.op # "get" /\ GetData(t, resp, r[1], r[2], f) /\ last'.op = "get"

\* the converter alone
NextResample ==
  \E df \in ResampleInputs, timeframe \in ResampleTimeframes :
    last.op # "resample" /\ Resample(df, timeframe)

\* one call of _download_year_data and the answers to its requests
NextFetch ==
  \/ \E t \in Tickers : \E key \in KeySet(t) : last.op # "fetch" /\ FetchYear(t, key)
  \/ \E status \in Answers : Answer(status)

\* one observed get_data on a store that is empty or holds what one save
\* of a frame reaching over whole days left
NextHit ==
  \/ \E t \in SeqTickers, rows \in CoverInputs : nops < MaxOps - 1 /\ Save(t, rows)
  \/ \E t \in SeqTickers, r \in RequestRanges, f \in BOOLEAN :
       \E resp \in Responses(t) :
         last.op # "get" /\ GetData(t, resp, r[1], r[2], f) /\ last'.op = "get"

Spec == Init /\ [][Next]_vars
SpecHit == Init /\ [][NextHit]_vars
SpecFetch == Init /\ [][NextFetch]_vars
SpecResample == Init /\ [][NextResample]_vars
SpecGet == Init /\ [][NextGet]_vars
SpecPool == Init /\ [][NextPool]_vars
SpecStore == Init /\ [][NextStore]_vars
SpecMany == Init /\ [][NextMany]_vars

\* =================================================================== claims
\* every instant some file of the directory holds a row for
Persisted(dir) == UNION {Dates(dir[i].data) : i \in 1..Len(dir)}

\* the rows of a frame of one date, in the frame's order
RowsOf(rows, t) == SelectSeq(rows, LAMBDA r : r.date = t)

\* a frame's rows in ascending order of date, one per date: for each date
\* the first of the frame's rows of that date
SortedDeduped(rows) ==
  LET dates == Ordered(Dates(rows))
  IN [i \in 1..Len(dates) |-> RowsOf(rows, dates[i])[1]]

StrictlyAscending(rows) == \A i \in 1..(Len(rows) - 1) : rows[i].date < rows[i + 1].date

\* the ranges get_missing_date_ranges is to return, from the extent of what
\* is persisted
ExpectedMissing(dir, start, end) ==
  IF Persisted(dir) = {} THEN << <<Midnight(start), Midnight(end)>> >>
  ELSE (IF Midnight(start) < MinOf(Persisted(dir))
          THEN << <<Midnight(start), MinOf(Persisted(dir))>> >> ELSE <<>>)
       \o (IF Midnight(end) > MaxOf(Persisted(dir))
             THEN << <<MaxOf(Persisted(dir)), Midnight(end)>> >> ELSE <<>>)

\* C1: get_missing_date_ranges returns the whole requested range when nothing
\* or only empty frames are persisted, and otherwise the range before the
\* first persisted instant iff the request starts before it, followed by the
\* range after the last persisted instant iff the request ends after it.
C1_MissingRanges ==
  last.op = "missing" =>
    last.ret = ExpectedMissing(dirs[last.ticker], last.start, last.end)

\* C1 witness: a call that returned the range before and the range after
C1_Witness ==
  /\ last.op = "missing"
  /\ Len(last.ret) = 2
  /\ last.ret[1][2] < last.ret[2][1]

\* C5: load_processed_data returns None when the directory has no file, and
\* otherwise a frame strictly ascending by date (no date twice).
C5_LoadSorted ==
  last.op = "load" =>
    /\ dirs[last.ticker] = <<>> => last.ret.isNone
    /\ ~last.ret.isNone => StrictlyAscending(last.ret.rows)

\* C5 witness: a load of two files that share a date, returning several rows
C5_Witness ==
  /\ last.op = "load"
  /\ Len(last.ret.rows) >= 2
  /\ \E i, j \in 1..Len(dirs[last.ticker]) :
       /\ i < j
       /\ Dates(dirs[last.ticker][i].data) \cap Dates(dirs[last.ticker][j].data) # {}

\* the files of a directory that hold a row of date t, oldest write first
Holders(dir, t) == SelectSeq(dir, LAMBDA f : t \in Dates(f.data))

\* C6: for every date, load_processed_data returns a row of the file written
\* last among the files that hold the date, whatever the order of os.listdir.
C6_LastWriteWins ==
  last.op = "load" =>
    \A i \in 1..Len(last.ret.rows) :
      LET h == Holders(dirs[last.ticker], last.ret.rows[i].date)
      IN \E k \in 1..Len(h[Len(h)].data) : h[Len(h)].data[k] = last.ret.rows[i]

\* C7: a save into an empty directory followed by a load returns the saved
\* frame sorted by date with one row per date, also for an empty frame.
C7_RoundTrip ==
  (last.op = "load" /\ last.saved # <<>>) =>
    last.ret = DF(SortedDeduped(last.saved[1]))

\* C7 witness: the round trip of a frame that is neither sorted nor free of
\* duplicate dates
C7_Witness ==
  /\ last.op = "load" /\ last.saved # <<>>
  /\ ~StrictlyAscending(last.saved[1])
  /\ Len(last.ret.rows) >= 2

\* C7 witness of the empty frame
C7_WitnessEmpty ==
  /\ last.op = "load" /\ last.saved = << <<>> >>
  /\ last.ret = DF(<<>>)

\* an observed get_data that repeats the observed call before it, both
\* without force_download and neither raising
Repeated ==
  /\ last.op = "get" /\ last.prev # <<>>
  /\ ~last.args.force
  /\ ~last.raised /\ ~last.prev[1].raised

\* C2: the second of two successive identical calls of get_data without
\* force_download issues no request to the provider.
C2_NoRefetch == Repeated => last.reqs = <<>>

\* C3: when the provider answers alike both times, two successive identical
\* calls of get_data without force_download return equal frames.
C3_SameResult ==
  (Repeated /\ last.resp = last.prev[1].resp) => last.ret = last.prev[1].ret

\* C4: no call removes an instant from what load_processed_data returns.
C4_HistoryKept ==
  [][\A t \in Tickers : Persisted(dirs[t]) \subseteq Persisted(dirs'[t])]_vars

\* a frame download_for_ticker returned that holds no row
Nothing(frame) == frame.isNone \/ Len(frame.rows) = 0

\* C8: a call of get_data with a missing range whose download returned
\* nothing returns a value that differs from what the same call returned
\* when every missing range was downloaded.
C8_PartialMarked ==
  ( /\ Repeated
    /\ \A i \in 1..Len(last.prev[1].fetched) : ~Nothing(last.prev[1].fetched[i])
    /\ \E i \in 1..Len(last.fetched) : Nothing(last.fetched[i]) )
  => last.ret # last.prev[1].ret

\* an observed get_data at the native timeframe with two missing ranges, the
\* download of one returning nothing and the download of the other rows
OneFailed ==
  /\ last.op = "get" /\ ~last.raised
  /\ ~last.args.force /\ last.args.timeframe = "1min"
  /\ ~last.existing.isNone
  /\ Len(last.fetched) = 2
  /\ \E i, j \in 1..2 : i # j /\ Nothing(last.fetched[i]) /\ ~Nothing(last.fetched[j])

InRequest(rows) == Between(rows, Midnight(last.args.start), Midnight(last.args.end))
RowSet(rows) == {rows[i] : i \in 1..Len(rows)}
GotRows ==
  IF Nothing(last.fetched[1]) THEN last.fetched[2].rows ELSE last.fetched[1].rows

\* C9: when one of two missing ranges yields nothing and the other yields
\* rows, get_data returns every row of the data that existed and a row for
\* every instant downloaded, as far as they lie in the requested range, and
\* every one of these instants is still persisted afterwards.
C9_ProgressKept ==
  OneFailed =>
    /\ RowSet(InRequest(last.existing.rows)) \subseteq RowSet(last.ret.rows)
    /\ Dates(InRequest(GotRows)) \subseteq Dates(last.ret.rows)
    /\ Dates(InRequest(last.existing.rows)) \cup Dates(InRequest(GotRows))
         \subseteq Persisted(dirs[last.args.ticker])

\* C9, the part about the value returned
C9_Returned ==
  OneFailed =>
    /\ RowSet(InRequest(last.existing.rows)) \subseteq RowSet(last.ret.rows)
    /\ Dates(InRequest(GotRows)) \subseteq Dates(last.ret.rows)

\* what get_data alone returns for a ticker, on the store as it was when
\* the batch was submitted and with the provider answering as in the batch
AloneReturns(t) ==
  {Convert(o.r.data, batch.timeframe) :
     o \in {x \in Outcomes(t, batch.raws[t], batch.dirs[t], figiTxt, stamps,
                           batch.resp[t], batch.start, batch.end, FALSE) : ~x.r.raised}}

Failed(t) == \E i \in 1..Len(workers) : workers[i].ticker = t /\ workers[i].raised

\* C10: once get_data_for_multiple_tickers returns, results has exactly one
\* entry per requested ticker, and when the get_data of some ticker raised,
\* the entry of every ticker whose get_data did not raise is a value get_data
\* alone returns for it.
C10_BatchIsolation ==
  batch.returned =>
    /\ DOMAIN results = SeqToSet(batch.tickers)
    /\ (\E t \in DOMAIN results : Failed(t)) =>
         \A t \in DOMAIN results : ~Failed(t) => results[t] \in AloneReturns(t)

\* C10 for the calls that name every ticker once
C10_EachOnce ==
  (\A i, j \in 1..Len(batch.tickers) : batch.tickers[i] = batch.tickers[j] => i = j)
    => C10_BatchIsolation

\* C11: during a call of get_data_for_multiple_tickers no two futures of one
\* ticker are inside get_data (load, fetch, persist) at the same time.
C11_SingleWriter ==
  \A i, j \in 1..Len(workers) :
    (i # j /\ workers[i].ticker = workers[j].ticker)
      => ~(Running(workers[i]) /\ Running(workers[j]))

\* C12: at every moment of a call of get_data_for_multiple_tickers at most
\* max_workers calls of get_data are in progress.
C12_BoundedPool ==
  batch.active =>
    Cardinality({i \in 1..Len(workers) : Running(workers[i])}) <= batch.max_workers

\* C12 witness: every thread is busy while a call is still queued
C12_Witness ==
  /\ batch.active
  /\ Cardinality({i \in 1..Len(workers) : Running(workers[i])}) = batch.max_workers
  /\ \E i \in 1..Len(workers) : workers[i].pc = "queued"

\* an observed get_data at the native timeframe that returned a frame
Native ==
  /\ last.op = "get" /\ ~last.raised
  /\ last.args.timeframe = "1min"
  /\ ~last.ret.isNone

\* the working series at the end of the observed get_data: what
\* download_for_ticker returned without existing data, and otherwise the
\* existing data after the last pass of the loop
WorkingSeries ==
  IF last.existing.isNone THEN last.fetched[1].rows
  ELSE IF last.passes = <<>> THEN last.existing.rows
  ELSE last.passes[Len(last.passes)].working

\* the instants of the existing data and of every frame downloaded
SeenDates ==
  Dates(last.existing.rows)
    \cup UNION {Dates(last.fetched[i].rows) : i \in 1..Len(last.fetched)}

InRange(t) == Midnight(last.args.start) <= t /\ t <= Midnight(last.args.end)

\* C13: at the native timeframe every row get_data returns lies between
\* midnight of start_date and midnight of end_date (inclusive), and every row
\* of the working series in that range is returned, as is a row for every
\* instant of the existing and the downloaded data in that range.
C13_RangeFilter ==
  Native =>
    /\ \A i \in 1..Len(last.ret.rows) : InRange(last.ret.rows[i].date)
    /\ \A i \in 1..Len(WorkingSeries) :
         InRange(WorkingSeries[i].date) => WorkingSeries[i] \in RowSet(last.ret.rows)
    /\ {t \in SeenDates : InRange(t)} \subseteq Dates(last.ret.rows)

\* C13 witness: a call with existing data whose working series has rows in
\* the range and rows after it
C13_Witness ==
  /\ Native /\ ~last.existing.isNone
  /\ Len(last.ret.rows) > 0
  /\ \E i \in 1..Len(WorkingSeries) : WorkingSeries[i].date > Midnight(last.args.end)
  /\ \E i \in 1..Len(last.fetched) : ~Nothing(last.fetched[i])

\* C14: under force_download get_data reads nothing of the processed
\* directory (existing_data is None, no missing ranges are computed) and
\* downloads once, with the requests of the whole range from start_date to
\* end_date.
C14_ForceSkipsCache ==
  (last.op = "get" /\ last.args.force) =>
    /\ last.existing.isNone
    /\ last.passes = <<>>
    /\ Len(last.fetched) = 1
    /\ last.missing = << <<Midnight(last.args.start), Midnight(last.args.end)>> >>
    /\ last.reqs = Requests(last.args.ticker, figiTxt, last.args.start, last.args.end)

\* C14 witness: a forced call on a store that held a caller's frame, which is
\* not part of what the call returns
C14_Witness ==
  /\ last.op = "get" /\ last.args.force /\ ~last.raised
  /\ \E i \in 1..Len(dirs[last.args.ticker]) :
       \E k \in 1..Len(dirs[last.args.ticker][i].data) :
         /\ dirs[last.args.ticker][i].data[k].volume = 2
         /\ InRange(dirs[last.args.ticker][i].data[k].date)
  /\ ~last.ret.isNone /\ Len(last.ret.rows) > 0

\* the bins of the observed resample_ohlcv that hold an input row, and the
\* input rows of a bin
Width == RuleTicks(last.timeframe)
FullBins == {last.df[i].date \div Width : i \in 1..Len(last.df)}
InBin(b) == SelectSeq(last.df, LAMBDA r : r.date \div Width = b)

RECURSIVE Total(_, _)
Total(rows, n) == IF n = 0 THEN 0 ELSE rows[n].volume + Total(rows, n - 1)

\* the bar of a bin of rows given in ascending order of date
Aggregated(in, date) ==
  [date |-> date, nan |-> FALSE,
   open |-> in[1].open,
   max |-> CHOOSE h \in {in[i].max : i \in 1..Len(in)} :
             \A i \in 1..Len(in) : in[i].max <= h,
   min |-> CHOOSE l \in {in[i].min : i \in 1..Len(in)} :
             \A i \in 1..Len(in) : l <= in[i].min,
   close |-> in[Len(in)].close,
   volume |-> Total(in, Len(in))]

\* C15: for every bin with input rows resample_ohlcv returns exactly one row,
\* with the open of the bin's earliest row, the highest max, the lowest min,
\* the close of the latest row and the sum of the volumes; the rows returned
\* are in ascending order of date.
C15_Aggregate ==
  last.op = "resample" =>
    /\ \A b \in FullBins :
         /\ Cardinality({i \in 1..Len(last.ret) : last.ret[i].date = b * Width}) = 1
         /\ \E i \in 1..Len(last.ret) : last.ret[i] = Aggregated(InBin(b), b * Width)
    /\ StrictlyAscending(last.ret)

\* C15 witness: the three minute bars 09:00, 09:01, 09:04 at 5min give the
\* single bar O=10, H=12, L=8, C=11, V=350
C15_Witness ==
  /\ last.op = "resample" /\ last.df = ExampleBars /\ last.timeframe = "5min"
  /\ last.ret = << [date |-> 5, nan |-> FALSE, open |-> 10, max |-> 12, min |-> 8,
                    close |-> 11, volume |-> 350] >>

\* C16: resample_ohlcv returns as many rows as there are bins with an input
\* row, none for an empty input.
C16_NoEmptyBins ==
  last.op = "resample" => Len(last.ret) = Cardinality(FullBins)

\* the rows held by the files of a processed directory
Stored(dir) == UNION {RowSet(dir[i].data) : i \in 1..Len(dir)}

\* C17: in get_data with existing data the missing ranges are taken one
\* after another, the range before the existing data first, and when a pass
\* of the loop is followed by another one, every row of the working series
\* at the end of the pass is held by the processed directory.
C17_MergedPersisted ==
  (last.op = "get" /\ ~last.existing.isNone) =>
    /\ Len(last.passes) <= Len(last.missing)
    /\ \A i \in 1..(Len(last.missing) - 1) : last.missing[i][1] < last.missing[i + 1][1]
    /\ \A k \in 1..(Len(last.passes) - 1) :
         RowSet(last.passes[k].working) \subseteq Stored(last.passes[k].dir)

\* the working series before pass k of the loop of the observed get_data
WorkingBefore(k) == IF k = 1 THEN last.existing.rows ELSE last.passes[k - 1].working

\* C18: after every pass of the loop of get_data the instants of the working
\* series are those of the working series before the pass together with those
\* of the frame downloaded, each once and in ascending order, and every row
\* the working series held before the pass is still in it (where both sides
\* have a row for an instant, the existing one stays).
C18_MergeCorrect ==
  (last.op = "get" /\ ~last.existing.isNone) =>
    \A k \in 1..Len(last.passes) :
      /\ Dates(last.passes[k].working) =
           Dates(WorkingBefore(k)) \cup Dates(last.fetched[k].rows)
      /\ StrictlyAscending(last.passes[k].working)
      /\ RowSet(WorkingBefore(k)) \subseteq RowSet(last.passes[k].working)

\* C18 witness: a pass whose downloaded frame has a row at an instant of the
\* working series that differs from the row held there, and a row at a new
\* instant
C18_Witness ==
  /\ last.op = "get" /\ ~last.existing.isNone
  /\ \E k \in 1..Len(last.passes) :
       /\ \E r \in RowSet(last.fetched[k].rows), w \in RowSet(WorkingBefore(k)) :
            r.date = w.date /\ r # w
       /\ Dates(last.fetched[k].rows) \ Dates(WorkingBefore(k)) # {}

OneDownload == last.op = "get" /\ last.existing.isNone

\* C20: download_for_ticker requests only the figi listed in figi.txt, once
\* for every year of the range, when there is one; otherwise it requests
\* the candidates in the order figi, isin, uid, every year of each, and none
\* of another candidate after a request that was answered with an archive.
C20_IdentifierSelection ==
  OneDownload =>
    LET years == YearSeq(YearOf(last.args.start), YearOf(last.args.end))
        correct_figi == get_correct_figi(get_figi(last.args.ticker), figiTxt)
        all == Cross(IdsOf(last.args.ticker), years)
    IN IF correct_figi # NoFigi
         THEN last.reqs = Cross(<<correct_figi>>, years)
         ELSE /\ Len(last.reqs) <= Len(all)
              /\ \A i \in 1..Len(last.reqs) : last.reqs[i] = all[i]
              /\ \A i \in 1..Len(last.reqs) : \A j \in (i + 1)..Len(last.reqs) :
                   DownloadYear(last.resp, last.reqs[i]) => last.reqs[j][1] = last.reqs[i][1]

\* C21: every range get_missing_date_ranges returns lies inside the
\* requested range: it starts at or after midnight of start_date, ends at or
\* before midnight of end_date, and does not end before it starts.
C21_RangesInside ==
  last.op = "missing" =>
    \A i \in 1..Len(last.ret) :
      /\ Midnight(last.start) <= last.ret[i][1]
      /\ last.ret[i][1] <= last.ret[i][2]
      /\ last.ret[i][2] <= Midnight(last.end)

\* the persisted extent of a processed directory reaches from at or before
\* midnight of day start to at or after midnight of day end
Covered(dir, start, end) ==
  /\ Persisted(dir) # {}
  /\ MinOf(Persisted(dir)) <= Midnight(start)
  /\ Midnight(end) <= MaxOf(Persisted(dir))

\* C22: a get_data without force_download on a store whose persisted extent
\* covers the requested range finds no missing range, sends no request,
\* downloads nothing and leaves the processed and the raw directory as they
\* were, whether or not a persisted row lies in the range.
C22_CacheHit ==
  [][(/\ last'.op = "get" /\ last' # last
      /\ ~last'.args.force
      /\ Covered(dirs[last'.args.ticker], last'.args.start, last'.args.end))
     => (/\ last'.missing = <<>>
         /\ last'.reqs = <<>>
         /\ last'.fetched = <<>>
         /\ ~last'.raised
         /\ dirs' = dirs
         /\ raws' = raws)]_vars

\* C22 witness: such a call on a store without a row in the requested range,
\* while the provider has bars in it and answers every request with an
\* archive: the call sent no request and returned an empty frame
C22_Witness ==
  /\ last.op = "get" /\ ~last.args.force
  /\ Covered(dirs[last.args.ticker], last.args.start, last.args.end)
  /\ \A t \in Persisted(dirs[last.args.ticker]) : ~InRange(t)
  /\ \E t \in stamps : InRange(t)
  /\ \A k \in KeySet(last.args.ticker) : last.resp[k] = "ok"
  /\ last.reqs = <<>>
  /\ last.args.timeframe = "1min" /\ last.ret = DF(<<>>)

====
